---- MODULE Spec2Model ----
(***************************************************************************)
(* Two cellular automata of the repository:                                *)
(*   - the Nagel-Schreckenberg single-lane traffic model                   *)
(*     (src/NagelSchreckenbergModel.ipynb), and                            *)
(*   - Conway's Game of Life with a neighbour list                         *)
(*     (src/unnamed/part_000).                                             *)
(* Lists of the source are 0-based; sequences here are 1-based, so the     *)
(* source's pos[k] is At(pos, k).                                          *)
(***************************************************************************)
EXTENDS Integers, Sequences, FiniteSets, TLC

VARIABLES
    \* ---- traffic (NagelSchreckenbergModel.ipynb)
    L,        \* length of road
    N,        \* number of vehicles
    vmax,     \* maximum speed
    p,        \* random-deceleration probability, in units of 1/PDen
    pos,      \* list of positions
    vel,      \* list of velocities
    i,        \* index of the vehicle loop, 0 .. N-1
    t,        \* index of the time loop: ticks completed
    pc,       \* the cell of the notebook that runs: "init", "single" (the
              \* single-step cell), "draw", "update" (simulation proper), "raised"
    exc,      \* "none", or the exception that ended the traffic run
    traffic,  \* the traffic array: T rows of L cells
    tpos,     \* pos at the start of the pass over the vehicles (history)
    tvel,     \* vel at the start of the pass over the vehicles (history)
    \* ---- Game of Life (unnamed/part_000)
    lifeN,    \* size of board (the notebook's N)
    policy,   \* boundary policy the neighbour list was built for
    nbrs,     \* neighbour list: cell -> list of cells
    board,    \* game board
    board0,   \* the initial configuration of the board (history)
    newboard, \* board the results of the running turn are stored in
    scan,     \* cells of the running turn already updated, row-major
    lifeT,    \* number of turns to simulate (the notebook's T)
    turn,     \* index of the turn loop: turns completed
    err,      \* "none", or the exception that ended the run
    lifePc    \* "create" before the board and the neighbour list exist, then "run"

trafficVars == <<L, N, vmax, p, pos, vel, i, t, pc, exc, traffic, tpos, tvel>>
lifeVars == <<lifeN, policy, nbrs, board, board0, newboard, scan, lifeT, turn, err,
             lifePc>>
vars == <<L, N, vmax, p, pos, vel, i, t, pc, exc, traffic, tpos, tvel,
          lifeN, policy, nbrs, board, board0, newboard, scan, lifeT, turn, err,
          lifePc>>

(***************************************************************************)
(* Bounds of the model.                                                    *)
(***************************************************************************)
\* longest road
MaxL == 4
\* largest maximum speed
MaxV == 2
\* np.random.rand() is drawn from {0/PDen, ..., (PDen-1)/PDen}, p from {0/PDen, ..., PDen/PDen}
PDen == 2
\* most ticks of the traffic time loop
MaxT == 2
\* longest road of the runs with at most two vehicles
MaxSparseL == 10
\* largest maximum speed of those runs
MaxSparseV == 3
\* longest road of the runs from the initializer with 0 < N < L
MaxInitL == 6

(***************************************************************************)
(* Traffic: helpers.                                                       *)
(***************************************************************************)
At(s, k) == s[k + 1]

SetAt(s, k, x) == [s EXCEPT ![k + 1] = x]

\* list.pop(N-1) followed by list.insert(0, x)
PopLastInsertFront(s, x) == <<x>> \o SubSeq(s, 1, Len(s) - 1)

\* acceleration
Accelerate(v, vm) == IF v < vm THEN v + 1 ELSE v

WrapGapPlusOne(ps, k, len) == (len - At(ps, k)) + At(ps, 0)

\* the gap the slowing-down rule compares the velocity with
WrapGap(ps, k, len) == (len - At(ps, k) - 1) + At(ps, 0)

Gap(ps, k, n, len) ==
    IF k < n - 1 THEN At(ps, k + 1) - At(ps, k) ELSE WrapGap(ps, k, len)

SlowDownToGap(ps, k, v, n, len) ==
    IF v >= Gap(ps, k, n, len) THEN Gap(ps, k, n, len) ELSE v

\* slowing down, and the periodic boundary condition on velocities
SlowDown(ps, k, v, n, len) ==
    IF v >= Gap(ps, k, n, len) THEN Gap(ps, k, n, len) - 1 ELSE v

RandomDecelAtZero(v, r, pr) == IF v >= 1 /\ r <= pr THEN v - 1 ELSE v

\* random deceleration; r is the value np.random.rand() returns, in units of 1/PDen
RandomDecel(v, r, pr) == IF v >= 1 /\ r < pr THEN v - 1 ELSE v

NewVelDecelFirst(ps, vs, k, r, n, len, vm, pr) ==
    SlowDown(ps, k, RandomDecel(Accelerate(At(vs, k), vm), r, pr), n, len)

\* the velocity of vehicle k after the three velocity rules
NewVel(ps, vs, k, r, n, len, vm, pr) ==
    RandomDecel(SlowDown(ps, k, Accelerate(At(vs, k), vm), n, len), r, pr)

\* periodic boundary condition on positions: is the last vehicle beyond the road
Wraps(ps, n, len) == At(ps, n - 1) >= len

WrapPos(ps, n, len) ==
    IF Wraps(ps, n, len) THEN PopLastInsertFront(ps, At(ps, n - 1) - len) ELSE ps

WrapVelKeepsOrder(ps, vs, n, len) == vs

WrapVel(ps, vs, n, len) ==
    IF Wraps(ps, n, len) THEN PopLastInsertFront(vs, At(vs, n - 1)) ELSE vs

(***************************************************************************)
(* Traffic: states and actions.                                            *)
(***************************************************************************)
\* strictly increasing lists of n positions in 0 .. len-1
RECURSIVE IncreasingSeqs(_, _, _)
IncreasingSeqs(n, lo, len) ==
    IF n = 0 THEN {<< >>}
    ELSE UNION { { <<x>> \o s : s \in IncreasingSeqs(n - 1, x + 1, len) }
                 : x \in lo .. (len - 1) }

WellFormed ==
    /\ N > 0 /\ N < L
    /\ Len(pos) = N /\ Len(vel) = N
    /\ \A k \in 1 .. N : pos[k] \in 0 .. (L - 1) /\ vel[k] \in 0 .. vmax
    /\ \A k \in 1 .. (N - 1) : pos[k] < pos[k + 1]

TrafficIdle ==
    /\ L = 0 /\ N = 0 /\ vmax = 0 /\ p = 0
    /\ pos = << >> /\ vel = << >> /\ i = 0 /\ t = 0
    /\ pc = "raised" /\ exc = "none" /\ traffic = << >>
    /\ tpos = << >> /\ tvel = << >>

LifeIdle ==
    /\ lifeN = 0 /\ policy = "fixed" /\ nbrs = << >>
    /\ board = << >> /\ board0 = << >> /\ newboard = << >>
    /\ scan = 0 /\ lifeT = 0 /\ turn = 0 /\ err = "none"
    /\ lifePc = "run"

\* traffic = np.zeros((T,L)), with T = MaxT
ZeroRows(len) == [row \in 1 .. MaxT |-> [c \in 1 .. len |-> 0]]

CellCodeVelocity(v) == v

\* the value drawn for a vehicle of velocity v
CellCode(v) == IF v = 0 THEN 1 ELSE IF v = 1 THEN 2 ELSE 3

\* NumPy indexing traffic[t, x]: a negative index counts from the end, an index
\* outside -L .. L-1 raises IndexError
CellRaises(len, x) == x < 0 - len \/ x >= len

CellIndex(len, x) == IF x < 0 THEN x + len ELSE x

\* the row after "for i in range(N)" has drawn vehicles k .. n-1 into it
RECURSIVE DrawFrom(_, _, _, _, _, _)
DrawFrom(row, ps, vs, k, n, len) ==
    IF k >= n \/ CellRaises(len, At(ps, k)) THEN row
    ELSE DrawFrom([row EXCEPT ![CellIndex(len, At(ps, k)) + 1] = CellCode(At(vs, k))],
                  ps, vs, k + 1, n, len)

DrawRaises(ps, n, len) == \E k \in 0 .. (n - 1) : CellRaises(len, At(ps, k))

AfterUpdatePushAhead(ps, vs, k, r, n, len, vm, pr) ==
    LET v == NewVel(ps, vs, k, r, n, len, vm, pr)
        vel1 == SetAt(vs, k, v)
        pos0 == IF k < n - 2 THEN SetAt(ps, k + 2, At(ps, k + 2) + 1) ELSE ps
        pos1 == SetAt(pos0, k, At(ps, k) + v)
    IN [pos |-> WrapPos(pos1, n, len), vel |-> WrapVel(pos1, vel1, n, len)]

\* the two lists after the update of vehicle k, np.random.rand() returning r
AfterUpdate(ps, vs, k, r, n, len, vm, pr) ==
    LET v == NewVel(ps, vs, k, r, n, len, vm, pr)
        vel1 == SetAt(vs, k, v)
        pos1 == SetAt(ps, k, At(ps, k) + v)
    IN [pos |-> WrapPos(pos1, n, len), vel |-> WrapVel(pos1, vel1, n, len)]

RECURSIVE UpdatePassFromStart(_, _, _, _, _, _, _, _, _, _)
UpdatePassFromStart(ps0, ps, vs, k, drs, n, len, vm, pr, stop) ==
    IF k >= stop THEN [pos |-> ps, vel |-> vs]
    ELSE LET v == RandomDecel(
                     IF Accelerate(At(vs, k), vm) >= Gap(ps0, k, n, len)
                     THEN Gap(ps0, k, n, len) - 1
                     ELSE Accelerate(At(vs, k), vm), drs[k + 1], pr)
             vel1 == SetAt(vs, k, v)
             pos1 == SetAt(ps, k, At(ps, k) + v)
         IN UpdatePassFromStart(ps0, WrapPos(pos1, n, len), WrapVel(pos1, vel1, n, len),
                                k + 1, drs, n, len, vm, pr, stop)

\* the lists after the updates of vehicles k .. stop-1 of one pass of
\* "for i in range(N)", drs[k+1] being the draw made for index k; ps0 is the
\* list the pass started from
RECURSIVE UpdatePass(_, _, _, _, _, _, _, _, _, _)
UpdatePass(ps0, ps, vs, k, drs, n, len, vm, pr, stop) ==
    IF k >= stop THEN [pos |-> ps, vel |-> vs]
    ELSE LET a == AfterUpdate(ps, vs, k, drs[k + 1], n, len, vm, pr)
         IN UpdatePass(ps0, a.pos, a.vel, k + 1, drs, n, len, vm, pr, stop)

\* any well-formed state: 0 < N < L vehicles, positions strictly increasing on the
\* road, velocities in 0 .. vmax; the simulation proper starts from it
StartTraffic(maxlen, maxn, maxv) ==
    /\ L \in 2 .. maxlen
    /\ N \in 1 .. maxn
    /\ N < L
    /\ vmax \in 1 .. maxv
    /\ p \in 0 .. PDen
    /\ pos \in IncreasingSeqs(N, 0, L)
    /\ vel \in [1 .. N -> 0 .. vmax]
    /\ i = 0
    /\ t = 0
    /\ pc = "draw"
    /\ exc = "none"
    /\ traffic = ZeroRows(L)
    /\ tpos = pos
    /\ tvel = vel
    /\ LifeIdle

InitTraffic == StartTraffic(MaxL, MaxL - 1, MaxV)

\* the same on longer roads with at most two vehicles
InitSparse == StartTraffic(MaxSparseL, 2, MaxSparseV)

\* the parameters are set and the initializer cell has not run yet
InitParams ==
    /\ L \in 1 .. MaxL
    /\ N \in 0 .. (MaxL + 1)
    /\ vmax \in 1 .. MaxV
    /\ p \in 0 .. PDen
    /\ pos = << >>
    /\ vel = << >>
    /\ i = 0
    /\ t = 0
    /\ pc = "init"
    /\ exc = "none"
    /\ traffic = ZeroRows(L)
    /\ tpos = << >>
    /\ tvel = << >>
    /\ LifeIdle

\* the same with 0 < N < L, on roads up to MaxInitL cells
InitValidParams ==
    /\ L \in 2 .. MaxInitL
    /\ N \in 1 .. (MaxInitL - 1)
    /\ N < L
    /\ vmax \in 1 .. MaxV
    /\ p \in 0 .. PDen
    /\ pos = << >>
    /\ vel = << >>
    /\ i = 0
    /\ t = 0
    /\ pc = "init"
    /\ exc = "none"
    /\ traffic = ZeroRows(L)
    /\ tpos = << >>
    /\ tvel = << >>
    /\ LifeIdle

\* np.random.randint(1, 1 + L//N) raises ValueError when low >= high
GapRaises(len, n) == n > 0 /\ len \div n < 1

GapListsFromZero(len, n) == [1 .. n -> 0 .. (len \div n)]

\* the gaps the initializer can draw
GapLists(len, n) == [1 .. n -> 1 .. (len \div n)]

RECURSIVE PosOfGapsNoSum(_, _)
PosOfGapsNoSum(gaps, k) ==
    IF k = 0 THEN << >>
    ELSE IF k = 1 THEN <<gaps[1]>>
    ELSE Append(PosOfGapsNoSum(gaps, k - 1), gaps[k])

\* pos[0] = gaps[0]; pos[i] = pos[i-1] + gaps[i]
RECURSIVE PosOfGaps(_, _)
PosOfGaps(gaps, k) ==
    IF k = 0 THEN << >>
    ELSE IF k = 1 THEN <<gaps[1]>>
    ELSE LET prev == PosOfGaps(gaps, k - 1) IN Append(prev, prev[k - 1] + gaps[k])

\* the initializer cell: gaps, positions and velocities
Initialize ==
    /\ pc = "init"
    /\ IF N <= 0
       THEN /\ pc' = "raised" /\ exc' = "IndexError"
            /\ UNCHANGED <<pos, vel, tpos, tvel>>
       ELSE IF GapRaises(L, N)
       THEN /\ pc' = "raised" /\ exc' = "ValueError"
            /\ UNCHANGED <<pos, vel, tpos, tvel>>
       ELSE /\ \E gaps \in GapLists(L, N) : pos' = PosOfGaps(gaps, N)
            /\ vel' \in [1 .. N -> 0 .. vmax]
            /\ tpos' = pos'
            /\ tvel' = vel'
            /\ pc' = "single"
            /\ exc' = exc
    /\ UNCHANGED <<L, N, vmax, p, i, t, traffic>>
    /\ UNCHANGED lifeVars

DrawRowIntoFirst ==
    /\ pc = "draw"
    /\ t < MaxT
    /\ traffic' = [traffic EXCEPT ![1] = DrawFrom(@, pos, vel, 0, N, L)]
    /\ IF DrawRaises(pos, N, L)
       THEN pc' = "raised" /\ exc' = "IndexError"
       ELSE pc' = "update" /\ exc' = exc
    /\ UNCHANGED <<L, N, vmax, p, pos, vel, i, t, tpos, tvel>>
    /\ UNCHANGED lifeVars

\* draw to traffic array: row t of the simulation proper
DrawRow ==
    /\ pc = "draw"
    /\ t < MaxT
    /\ traffic' = [traffic EXCEPT ![t + 1] = DrawFrom(@, pos, vel, 0, N, L)]
    /\ IF DrawRaises(pos, N, L)
       THEN pc' = "raised" /\ exc' = "IndexError"
       ELSE pc' = "update" /\ exc' = exc
    /\ UNCHANGED <<L, N, vmax, p, pos, vel, i, t, tpos, tvel>>
    /\ UNCHANGED lifeVars

VehicleUpdateResetsP ==
    /\ pc \in {"single", "update"}
    /\ N > 0
    /\ \E r \in 0 .. (PDen - 1) :
        /\ pos' = AfterUpdate(pos, vel, i, r, N, L, vmax, p).pos
        /\ vel' = AfterUpdate(pos, vel, i, r, N, L, vmax, p).vel
    /\ i' = IF i < N - 1 THEN i + 1 ELSE 0
    /\ t' = IF i < N - 1 \/ pc = "single" THEN t ELSE t + 1
    /\ pc' = IF i < N - 1 THEN pc ELSE "draw"
    /\ tpos' = IF i = 0 THEN pos ELSE tpos
    /\ tvel' = IF i = 0 THEN vel ELSE tvel
    /\ p' = IF i < N - 1 THEN p ELSE 0
    /\ UNCHANGED <<L, N, vmax, exc, traffic>>
    /\ UNCHANGED lifeVars

\* one pass of the body of "for i in range(N)": the update of vehicle i, in the
\* single-step cell or in the simulation proper
VehicleUpdate ==
    /\ pc \in {"single", "update"}
    /\ N > 0
    /\ \E r \in 0 .. (PDen - 1) :
        /\ pos' = AfterUpdate(pos, vel, i, r, N, L, vmax, p).pos
        /\ vel' = AfterUpdate(pos, vel, i, r, N, L, vmax, p).vel
    /\ i' = IF i < N - 1 THEN i + 1 ELSE 0
    /\ t' = IF i < N - 1 \/ pc = "single" THEN t ELSE t + 1
    /\ pc' = IF i < N - 1 THEN pc ELSE "draw"
    /\ tpos' = IF i = 0 THEN pos ELSE tpos
    /\ tvel' = IF i = 0 THEN vel ELSE tvel
    /\ UNCHANGED <<L, N, vmax, p, exc, traffic>>
    /\ UNCHANGED lifeVars

NextTraffic == DrawRow \/ VehicleUpdate

SpecTraffic == InitTraffic /\ [][NextTraffic]_vars

SpecSparse == InitSparse /\ [][NextTraffic]_vars

NextNotebook == Initialize \/ DrawRow \/ VehicleUpdate

\* the notebook from its first cell: initializer, single-step cell, simulation
SpecNotebook == InitParams /\ [][NextNotebook]_vars

\* the notebook with 0 < N < L
SpecValidNotebook == InitValidParams /\ [][NextNotebook]_vars

(***************************************************************************)
(* Game of Life: the neighbour list.  A cell is <<i, j>>; the list of a    *)
(* cell is a sequence of cells, in the order the source writes them.       *)
(***************************************************************************)
\* largest board of the runs over every configuration
MaxLifeN == 3
\* most live cells of their initial configurations under the source's list
MaxAlive == 5
\* most live cells of the initial configurations under the periodic list
MaxAlivePeriodic == 2
\* largest board of the runs from the block and the blinker
MaxPatN == 6
\* most turns of the turn loop in those runs
MaxTurns == 3

Cells(n) == (0 .. (n - 1)) \X (0 .. (n - 1))

\* np.zeros((N,N))
Zeros(n) == [c \in Cells(n) |-> 0]

\* neighbors of corners
Corner00(n) == << <<0, 1>>, <<1, 1>>, <<1, 0>> >>

Corner0N(n) == << <<1, n - 1>>, <<1, n - 2>>, <<0, n - 2>> >>

CornerNN(n) == << <<n - 1, n - 2>>, <<n - 2, n - 2>>, <<n - 2, n - 1>> >>

CornerN0(n) == << <<n - 2, 0>>, <<n - 2, 1>>, <<n - 1, 1>> >>

\* neighbors of left edge, nbrs[(0,j)]
LeftEdge(n, j) ==
    << <<0, j + 1>>, <<1, j + 1>>, <<1, j>>, <<1, j - 1>>, <<0, j - 1>> >>

\* the top edge with (i+1, N-1) written in the place of (i-1, N-1)
TopEdgeOneSided(n, r) ==
    << <<r + 1, n - 1>>, <<r + 1, n - 2>>, <<r, n - 2>>, <<r - 1, n - 2>>,
       <<r + 1, n - 1>> >>

\* neighbors of top edge, nbrs[(i,N-1)]
TopEdge(n, r) ==
    << <<r + 1, n - 1>>, <<r + 1, n - 2>>, <<r, n - 2>>, <<r - 1, n - 2>>,
       <<r - 1, n - 1>> >>

\* the right edge with (N-2, j) written twice for (N-2, j+1)
RightEdgeDup(n, j) ==
    << <<n - 1, j - 1>>, <<n - 2, j - 1>>, <<n - 2, j>>, <<n - 2, j>>,
       <<n - 1, j + 1>> >>

\* neighbors of right edge, nbrs[(N-1,j)]
RightEdge(n, j) ==
    << <<n - 1, j - 1>>, <<n - 2, j - 1>>, <<n - 2, j>>, <<n - 2, j + 1>>,
       <<n - 1, j + 1>> >>

\* the bottom edge with (i-1, 0) written twice for (i-1, 1)
BottomEdgeDup(n, r) ==
    << <<r - 1, 0>>, <<r - 1, 0>>, <<r, 1>>, <<r + 1, 1>>, <<r + 1, 0>> >>

\* neighbors of bottom edge, nbrs[(i,0)]
BottomEdge(n, r) ==
    << <<r - 1, 0>>, <<r - 1, 1>>, <<r, 1>>, <<r + 1, 1>>, <<r + 1, 0>> >>

\* neighbors of interior nodes, nbrs[(i,j)]
Interior(r, j) ==
    << <<r, j + 1>>, <<r + 1, j + 1>>, <<r + 1, j>>, <<r + 1, j - 1>>,
       <<r, j - 1>>, <<r - 1, j - 1>>, <<r - 1, j>>, <<r - 1, j + 1>> >>

\* the assignments nbrs[key] = value of the cell, in program order
CornerWrites(n) ==
    << << <<0, 0>>, Corner00(n) >>,
       << <<0, n - 1>>, Corner0N(n) >>,
       << <<n - 1, n - 1>>, CornerNN(n) >>,
       << <<n - 1, 0>>, CornerN0(n) >> >>

\* the four loops "for x in range(1,N-1)" over the edges
EdgeWrites(n) ==
    [j \in 1 .. (n - 2) |-> << <<0, j>>, LeftEdge(n, j) >>]
    \o [r \in 1 .. (n - 2) |-> << <<r, n - 1>>, TopEdge(n, r) >>]
    \o [j \in 1 .. (n - 2) |-> << <<n - 1, j>>, RightEdge(n, j) >>]
    \o [r \in 1 .. (n - 2) |-> << <<r, 0>>, BottomEdge(n, r) >>]

\* the double loop over the interior nodes
InteriorWrites(n) ==
    IF n <= 2 THEN << >>
    ELSE [m \in 1 .. ((n - 2) * (n - 2)) |->
            LET r == 1 + ((m - 1) \div (n - 2))
                j == 1 + ((m - 1) % (n - 2))
            IN << <<r, j>>, Interior(r, j) >>]

NbrWrites(n) == CornerWrites(n) \o EdgeWrites(n) \o InteriorWrites(n)

\* a dict after a sequence of item assignments: the last value written to each key
DictOf(ws) ==
    [key \in {ws[x][1] : x \in 1 .. Len(ws)} |->
        ws[CHOOSE x \in 1 .. Len(ws) :
              /\ ws[x][1] = key
              /\ \A y \in (x + 1) .. Len(ws) : ws[y][1] # key][2]]

\* the neighbour list the source builds (fixed boundary conditions)
FixedNbrs(n) == DictOf(NbrWrites(n))

\* the periodic list with the column index left unwrapped
PeriodicNbrsRowsOnly(n) ==
    [c \in Cells(n) |->
        [d \in 1 .. 8 |->
            << (c[1] + Interior(0, 0)[d][1]) % n,
               c[2] + Interior(0, 0)[d][2] >>]]

\* periodic boundary conditions: the eight compass neighbours, indices wrapped
\* modulo N (not in the source, which leaves it as an exercise)
PeriodicNbrs(n) ==
    [c \in Cells(n) |->
        [d \in 1 .. 8 |->
            << (c[1] + Interior(0, 0)[d][1]) % n,
               (c[2] + Interior(0, 0)[d][2]) % n >>]]

TableOf(pol, n) == IF pol = "periodic" THEN PeriodicNbrs(n) ELSE FixedNbrs(n)

\* the set of neighbours a list holds
NbrSet(list) == {list[d] : d \in 1 .. Len(list)}

(***************************************************************************)
(* Game of Life: one turn.                                                 *)
(***************************************************************************)
\* NumPy indexing board[k,l]: a negative index counts from the end, an index
\* outside -N .. N-1 raises IndexError
InRange(n, k) == k >= 0 - n /\ k < n

NpIndex(n, k) == IF k < 0 THEN k + n ELSE k

ReadRaises(n, c) == ~(InRange(n, c[1]) /\ InRange(n, c[2]))

BoardAt(b, n, c) == b[<<NpIndex(n, c[1]), NpIndex(n, c[2])>>]

\* loop over neighbors: numnbr += board[k,l]
RECURSIVE NumNbr(_, _, _)
NumNbr(b, n, list) ==
    IF list = << >> THEN 0
    ELSE BoardAt(b, n, Head(list)) + NumNbr(b, n, Tail(list))

\* the rule with "numnbr <= 2" for "numnbr < 2"
RuleUnder3(alive, numnbr) ==
    IF alive = 1
    THEN (IF numnbr <= 2 \/ numnbr > 3 THEN 0 ELSE 1)
    ELSE (IF numnbr = 3 THEN 1 ELSE 0)

\* the rule with "numnbr >= 3" for "numnbr > 3"
RuleOver2(alive, numnbr) ==
    IF alive = 1
    THEN (IF numnbr < 2 \/ numnbr >= 3 THEN 0 ELSE 1)
    ELSE (IF numnbr = 3 THEN 1 ELSE 0)

\* the rule storing the count for a birth
RuleStoresCount(alive, numnbr) ==
    IF alive = 1
    THEN (IF numnbr < 2 \/ numnbr > 3 THEN 0 ELSE 1)
    ELSE (IF numnbr = 3 THEN numnbr ELSE 0)

\* update board[i,j] to newboard[i,j]
Rule(alive, numnbr) ==
    IF alive = 1
    THEN (IF numnbr < 2 \/ numnbr > 3 THEN 0 ELSE 1)
    ELSE (IF numnbr = 3 THEN 1 ELSE 0)

\* the assignment made to the board being read as well
CellWriteInPlace(b, nb, c, x) ==
    [board |-> [b EXCEPT ![c] = x], newboard |-> [nb EXCEPT ![c] = x]]

\* the two boards after the assignment newboard[i,j] = x
CellWrite(b, nb, c, x) == [board |-> b, newboard |-> [nb EXCEPT ![c] = x]]

\* the cell the scan is at, row-major: for i in range(N): for j in range(N)
ScanCell(n, k) == << k \div n, k % n >>

ScanIndex(n, c) == c[1] * n + c[2]

\* the exception the update of cell c raises, or "none"
CellError(tbl, n, c) ==
    IF c \notin DOMAIN tbl THEN "KeyError"
    ELSE IF \E d \in 1 .. Len(tbl[c]) : ReadRaises(n, tbl[c][d]) THEN "IndexError"
    ELSE "none"

\* the update of a cell that empties the entry it has read
LifeCellDropsEntry ==
    /\ lifePc = "run"
    /\ err = "none"
    /\ turn < lifeT
    /\ scan < lifeN * lifeN
    /\ LET c == ScanCell(lifeN, scan)
           base == IF scan = 0 THEN Zeros(lifeN) ELSE newboard
           e == CellError(nbrs, lifeN, c)
       IN IF e # "none"
          THEN /\ err' = e
               /\ newboard' = base
               /\ UNCHANGED <<board, scan>>
          ELSE LET w == CellWrite(board, base, c,
                                  Rule(board[c], NumNbr(board, lifeN, nbrs[c])))
               IN /\ board' = w.board
                  /\ newboard' = w.newboard
                  /\ scan' = scan + 1
                  /\ UNCHANGED err
    /\ nbrs' = [nbrs EXCEPT ![ScanCell(lifeN, scan)] = << >>]
    /\ UNCHANGED <<lifeN, policy, board0, lifeT, turn, lifePc>>
    /\ UNCHANGED trafficVars

\* one pass of the body of the double loop over the cells: the update of one
\* cell; the first pass of a turn follows newboard = np.zeros((N,N))
LifeCell ==
    /\ lifePc = "run"
    /\ err = "none"
    /\ turn < lifeT
    /\ scan < lifeN * lifeN
    /\ LET c == ScanCell(lifeN, scan)
           base == IF scan = 0 THEN Zeros(lifeN) ELSE newboard
           e == CellError(nbrs, lifeN, c)
       IN IF e # "none"
          THEN /\ err' = e
               /\ newboard' = base
               /\ UNCHANGED <<board, scan>>
          ELSE LET w == CellWrite(board, base, c,
                                  Rule(board[c], NumNbr(board, lifeN, nbrs[c])))
               IN /\ board' = w.board
                  /\ newboard' = w.newboard
                  /\ scan' = scan + 1
                  /\ UNCHANGED err
    /\ UNCHANGED <<lifeN, policy, nbrs, board0, lifeT, turn, lifePc>>
    /\ UNCHANGED trafficVars

\* the end of a turn without board = np.array(newboard)
LifeSwapNoCopy ==
    /\ lifePc = "run"
    /\ err = "none"
    /\ turn < lifeT
    /\ scan = lifeN * lifeN
    /\ scan' = 0
    /\ turn' = turn + 1
    /\ UNCHANGED <<lifeN, policy, nbrs, board, board0, newboard, lifeT, err, lifePc>>
    /\ UNCHANGED trafficVars

\* the end of a turn: board = np.array(newboard)
LifeSwap ==
    /\ lifePc = "run"
    /\ err = "none"
    /\ turn < lifeT
    /\ scan = lifeN * lifeN
    /\ board' = (IF scan = 0 THEN Zeros(lifeN) ELSE newboard)
    /\ newboard' = (IF scan = 0 THEN Zeros(lifeN) ELSE newboard)
    /\ scan' = 0
    /\ turn' = turn + 1
    /\ UNCHANGED <<lifeN, policy, nbrs, board0, lifeT, err, lifePc>>
    /\ UNCHANGED trafficVars

NextLife == LifeCell \/ LifeSwap

\* the 2x2 block and the blinker on an otherwise dead board
Block(n) ==
    [c \in Cells(n) |->
        IF c \in {<<1, 1>>, <<1, 2>>, <<2, 1>>, <<2, 2>>} THEN 1 ELSE 0]

Blinker(n) ==
    [c \in Cells(n) |-> IF c \in {<<1, 0>>, <<1, 1>>, <<1, 2>>} THEN 1 ELSE 0]

LifeStart(n, pol, b, turns) ==
    /\ lifeN = n
    /\ policy = pol
    /\ nbrs = TableOf(pol, n)
    /\ board = b
    /\ board0 = b
    /\ newboard = Zeros(n)
    /\ scan = 0
    /\ lifeT = turns
    /\ turn = 0
    /\ err = "none"
    /\ lifePc = "run"

\* the configurations of a board with at most k live cells
Boards(n, k) ==
    {b \in [Cells(n) -> {0, 1}] :
        Cardinality({c \in Cells(n) : b[c] = 1}) <= k}

\* one turn (the single-turn cell) from every configuration of a small board,
\* with the source's neighbour list
InitLife ==
    /\ \E n \in 1 .. MaxLifeN : \E b \in Boards(n, MaxAlive) :
          LifeStart(n, "fixed", b, 1)
    /\ TrafficIdle

\* the same with the periodic neighbour list
InitLifePeriodic ==
    /\ \E n \in 1 .. MaxLifeN : \E b \in Boards(n, MaxAlivePeriodic) :
          LifeStart(n, "periodic", b, 1)
    /\ TrafficIdle

\* N is set and neither the board nor the neighbour list has been created
InitLifeCreate ==
    /\ lifeN \in (0 - 1) .. MaxLifeN
    /\ policy = "fixed"
    /\ nbrs = << >>
    /\ board = << >>
    /\ board0 = << >>
    /\ newboard = << >>
    /\ scan = 0
    /\ lifeT = 1
    /\ turn = 0
    /\ err = "none"
    /\ lifePc = "create"
    /\ TrafficIdle

\* the cells that create the board, initialize it at random and fill the
\* neighbour list; np.zeros((N,N)) raises ValueError for a negative N
LifeCreate ==
    /\ lifePc = "create"
    /\ err = "none"
    /\ IF lifeN < 0
       THEN /\ err' = "ValueError"
            /\ UNCHANGED <<nbrs, board, board0, newboard, lifePc>>
       ELSE /\ board' \in Boards(lifeN, MaxAlive)
            /\ board0' = board'
            /\ newboard' = Zeros(lifeN)
            /\ nbrs' = FixedNbrs(lifeN)
            /\ lifePc' = "run"
            /\ UNCHANGED err
    /\ UNCHANGED <<lifeN, policy, scan, lifeT, turn>>
    /\ UNCHANGED trafficVars

NextLifeCreate == LifeCreate \/ LifeCell \/ LifeSwap

\* the Game of Life notebook from the cell that creates the board
SpecLifeCreate == InitLifeCreate /\ [][NextLifeCreate]_vars

\* MaxTurns turns from the block or the blinker on a larger board, under either
\* boundary policy
InitPattern ==
    /\ \E n \in 4 .. MaxPatN : \E pol \in {"fixed", "periodic"} :
          \E b \in {Block(n), Blinker(n)} : LifeStart(n, pol, b, MaxTurns)
    /\ TrafficIdle

SpecLife == InitLife /\ [][NextLife]_vars

SpecLifePeriodic == InitLifePeriodic /\ [][NextLife]_vars

SpecPattern == InitPattern /\ [][NextLife]_vars

(***************************************************************************)
(* Traffic: the claims.  A step is complete when the vehicle loop is back  *)
(* at i = 0.                                                               *)
(***************************************************************************)
StepComplete == i = 0 /\ t >= 1

\* C1: after any number of steps from a well-formed state, and for every outcome
\* of the random draws, no two vehicles occupy the same cell.
C1_NoOverlap ==
    StepComplete =>
        \A a \in 1 .. N : \A b \in 1 .. N : a # b => pos[a] # pos[b]

\* C2: after every step from a well-formed state, every vehicle's velocity is
\* in 0 .. vmax.
C2_VelocityBounds ==
    StepComplete => \A k \in 1 .. N : vel[k] >= 0 /\ vel[k] <= vmax

\* C3: after every complete step from a well-formed state, the list of vehicles is
\* strictly ascending by position and every position lies on the road, 0 .. L-1.
C3_AscendingOnRoad ==
    StepComplete =>
        /\ \A k \in 1 .. N : pos[k] \in 0 .. (L - 1)
        /\ \A k \in 1 .. (N - 1) : pos[k] < pos[k + 1]

(***************************************************************************)
(* Game of Life: the claims.                                               *)
(***************************************************************************)
\* the number of entries of cell c's list that are alive on board b
AliveNbrs(b, tbl, c) ==
    Cardinality({d \in 1 .. Len(tbl[c]) : b[tbl[c][d]] = 1})

\* the cells the running turn has already updated
Scanned == {c \in Cells(lifeN) : ScanIndex(lifeN, c) < scan}

\* C4: the next value of a cell is alive exactly when the cell is alive with 2 or 3
\* alive neighbours in the neighbour list, or dead with exactly 3; every other cell
\* is dead (so an alive cell without alive neighbours dies).
C4_StepRule ==
    err = "none" =>
        \A c \in Scanned :
            newboard[c] =
                (IF \/ board[c] = 1 /\ AliveNbrs(board, nbrs, c) \in {2, 3}
                    \/ board[c] = 0 /\ AliveNbrs(board, nbrs, c) = 3
                 THEN 1 ELSE 0)

\* a whole turn is computed: an alive cell without alive neighbours is dead in the
\* results, and a dead cell with three alive neighbours is alive
C4_Witness ==
    /\ lifeN = 3 /\ err = "none" /\ scan = lifeN * lifeN
    /\ \E c \in Scanned :
          board[c] = 1 /\ AliveNbrs(board, nbrs, c) = 0 /\ newboard[c] = 0
    /\ \E c \in Scanned :
          board[c] = 0 /\ AliveNbrs(board, nbrs, c) = 3 /\ newboard[c] = 1

\* the value the synchronous update gives cell c of board b
SyncValue(b, n, tbl, c) == Rule(b[c], NumNbr(b, n, tbl[c]))

\* C5: while the cells are scanned the current board is not modified; after each
\* cell's update the results board holds, for the cells scanned so far, the value
\* computed from the board as it was before the turn and 0 everywhere else (it was
\* freshly allocated); the board is replaced only once all N x N cells are
\* computed, by the results board.
C5_SynchronousUpdate ==
    [][ /\ scan' = scan + 1 =>
            /\ board' = board
            /\ \A c \in Cells(lifeN) :
                  newboard'[c] =
                      (IF ScanIndex(lifeN, c) < scan'
                       THEN SyncValue(board, lifeN, nbrs, c) ELSE 0)
        /\ board' # board => scan = lifeN * lifeN /\ board' = newboard
      ]_vars

\* in the second turn or later, a cell whose value changes has been computed while
\* cells remain to be scanned, and the results board of the turn before was not dead
C5_Witness ==
    /\ turn >= 1 /\ err = "none"
    /\ scan > 0 /\ scan < lifeN * lifeN
    /\ \E c \in Scanned : newboard[c] # board[c]
    /\ \E c \in Cells(lifeN) : ScanIndex(lifeN, c) >= scan /\ board[c] = 1

OnBorder(n, k) == k = 0 \/ k = n - 1

\* C6: in the neighbour list the source builds, each corner cell has exactly 3
\* neighbours, each edge cell that is no corner exactly 5, each interior cell 8.
C6_FixedCounts ==
    policy = "fixed" =>
        \A c \in Cells(lifeN) :
            /\ c \in DOMAIN nbrs
            /\ Len(nbrs[c]) = Cardinality(NbrSet(nbrs[c]))
            /\ Len(nbrs[c]) =
                  (IF OnBorder(lifeN, c[1]) /\ OnBorder(lifeN, c[2]) THEN 3
                   ELSE IF OnBorder(lifeN, c[1]) \/ OnBorder(lifeN, c[2]) THEN 5
                   ELSE 8)

\* a board with corners, edges and an interior cell has been stepped
C6_Witness ==
    /\ policy = "fixed" /\ lifeN = 3 /\ turn = 1
    /\ Len(nbrs[<<0, 0>>]) = 3 /\ Len(nbrs[<<2, 1>>]) = 5 /\ Len(nbrs[<<1, 1>>]) = 8

\* the cells of the board next to cell c, c itself left out
Moore(n, c) ==
    {d \in Cells(n) :
        /\ d # c
        /\ d[1] - c[1] \in {-1, 0, 1}
        /\ d[2] - c[2] \in {-1, 0, 1}}

\* C7: for every board size N > 0, N = 1 and N = 2 included, the source's
\* neighbour list has an entry for exactly the N*N cells, and the entry of a cell
\* is exactly the set of cells of the board next to it, without duplicates and
\* without a coordinate off the board.
C7_FixedContents ==
    policy = "fixed" =>
        /\ DOMAIN nbrs = Cells(lifeN)
        /\ \A c \in Cells(lifeN) :
              /\ NbrSet(nbrs[c]) = Moore(lifeN, c)
              /\ Len(nbrs[c]) = Cardinality(NbrSet(nbrs[c]))

\* C8 as stated: under the periodic policy every cell of every board holds
\* exactly 8 neighbours and the neighbour relation is symmetric.
C8_PeriodicEight ==
    policy = "periodic" =>
        /\ \A c \in Cells(lifeN) : Cardinality(NbrSet(nbrs[c])) = 8
        /\ \A a \in Cells(lifeN) : \A b \in Cells(lifeN) :
              b \in NbrSet(nbrs[a]) <=> a \in NbrSet(nbrs[b])

\* C8 as amended: under the periodic policy every cell of a board of size N >= 3
\* holds exactly 8 neighbours, all on the board and none the cell itself; and for
\* every board size the neighbour relation is symmetric.
C8_PeriodicEightFrom3 ==
    policy = "periodic" =>
        /\ lifeN >= 3 =>
              \A c \in Cells(lifeN) :
                  /\ Cardinality(NbrSet(nbrs[c])) = 8
                  /\ NbrSet(nbrs[c]) \subseteq Cells(lifeN) \ {c}
        /\ \A a \in Cells(lifeN) : \A b \in Cells(lifeN) :
              b \in NbrSet(nbrs[a]) <=> a \in NbrSet(nbrs[b])

\* a board of size 3 with the periodic list has been stepped; the corner's list
\* reaches across both edges
C8_Witness ==
    /\ policy = "periodic" /\ lifeN = 3 /\ turn = 1
    /\ <<2, 2>> \in NbrSet(nbrs[<<0, 0>>])
    /\ <<0, 0>> \in NbrSet(nbrs[<<2, 2>>])

\* C9: on a periodic board of size >= 4 whose only alive cells are the block, the
\* board is unchanged after any number of turns.
C9_BlockStill ==
    (policy = "periodic" /\ lifeN >= 4 /\ board0 = Block(lifeN)) =>
        board = Block(lifeN)

\* all the turns of a run from the block are done
C9_Witness ==
    /\ policy = "periodic" /\ lifeN >= 4 /\ board0 = Block(lifeN)
    /\ turn = lifeT /\ turn >= 2 /\ board = Block(lifeN)

\* C10: on a periodic board of size >= 5 whose only alive cells are the blinker,
\* the board differs from the original after 1 turn and equals it after 2 turns.
C10_BlinkerPeriod2 ==
    (policy = "periodic" /\ lifeN >= 5 /\ board0 = Blinker(lifeN) /\ scan = 0) =>
        /\ turn = 1 => board # board0
        /\ turn = 2 => board = board0

\* two turns of a run from the blinker are done
C10_Witness ==
    /\ policy = "periodic" /\ lifeN >= 5 /\ board0 = Blinker(lifeN)
    /\ scan = 0 /\ turn = 2 /\ board = board0

\* C12: with p = 0 the update of a vehicle gives the same two lists whatever
\* np.random.rand() returns, so no draw changes a velocity or a position
C12_ZeroProbability ==
    [][(p = 0 /\ pc \in {"single", "update"} /\ N > 0) =>
         \A r \in 0 .. (PDen - 1) :
            /\ pos' = AfterUpdate(pos, vel, i, r, N, L, vmax, p).pos
            /\ vel' = AfterUpdate(pos, vel, i, r, N, L, vmax, p).vel]_vars

\* a tick has run with p = 0 and left a moving vehicle, for which the draw was made
C12_Witness ==
    /\ p = 0
    /\ StepComplete
    /\ \E k \in 1 .. N : vel[k] >= 1 /\ tvel[k] >= 1

Min(a, b) == IF a < b THEN a ELSE b

\* the lists ps, vs are a well-formed state of n vehicles on a road of len cells
WellFormedLists(ps, vs, n, len, vm) ==
    /\ 0 < n /\ n < len
    /\ \A k \in 1 .. n : ps[k] \in 0 .. (len - 1) /\ vs[k] \in 0 .. vm
    /\ \A k \in 1 .. (n - 1) : ps[k] < ps[k + 1]

\* the distance in cells from vehicle k of the list ps to the one ahead of it on
\* the ring, vehicle (k + 1) mod n
RingDistance(ps, k, n, len) ==
    IF k < n - 1 THEN At(ps, k + 1) - At(ps, k) ELSE len - At(ps, k) + At(ps, 0)

\* at the start of the tick every vehicle's gap to the vehicle ahead exceeds its
\* accelerated velocity
Unconstrained ==
    \A k \in 1 .. N : RingDistance(tpos, k - 1, N, L) > Min(tvel[k] + 1, vmax)

\* every vehicle of the start lists moved at min(v + 1, vmax)
FreeVel == [k \in 1 .. N |-> Min(tvel[k] + 1, vmax)]

FreePos == [k \in 1 .. N |-> tpos[k] + FreeVel[k]]

\* the lists a free tick ends with: the last vehicle re-enters at the front when
\* it has left the road
FreeTick ==
    IF FreePos[N] >= L
    THEN /\ pos = <<FreePos[N] - L>> \o SubSeq(FreePos, 1, N - 1)
         /\ vel = <<FreeVel[N]>> \o SubSeq(FreeVel, 1, N - 1)
    ELSE pos = FreePos /\ vel = FreeVel

\* C13: after a tick with p = 0 from a well-formed state in which every vehicle's
\* gap exceeds its accelerated velocity, every velocity is min(v + 1, vmax) and
\* every position has advanced by it; L = 10, vmax = 2, positions [0, 5] and
\* velocities [0, 0] give velocities [1, 1] and positions [1, 6]
C13_FreeStep ==
    (StepComplete /\ p = 0 /\ WellFormedLists(tpos, tvel, N, L, vmax) /\ Unconstrained)
        => /\ FreeTick
           /\ (L = 10 /\ vmax = 2 /\ tpos = <<0, 5>> /\ tvel = <<0, 0>>)
                 => (vel = <<1, 1>> /\ pos = <<1, 6>>)

\* row t of the traffic array has just been drawn from the lists pos and vel
RowDrawn == pc = "update" /\ i = 0

\* C14: in a row just drawn an empty cell holds 0 and the cell of a vehicle of
\* velocity v holds v + 1, for every vmax >= 1, so that every cell holds a
\* value in 0 .. vmax + 1
C14_SnapshotEncoding ==
    RowDrawn =>
        /\ \A k \in 1 .. N : traffic[t + 1][CellIndex(L, pos[k]) + 1] = vel[k] + 1
        /\ \A c \in 0 .. (L - 1) :
              /\ (\A k \in 1 .. N : CellIndex(L, pos[k]) # c) => traffic[t + 1][c + 1] = 0
              /\ traffic[t + 1][c + 1] \in 0 .. (vmax + 1)

\* the initializer cell has just filled pos and vel
Initialized == pc = "single" /\ i = 0

\* C15: for 0 < N < L every position the initializer produces is on the road,
\* in 0 .. L-1
C15_InitOnRoad ==
    (Initialized /\ 0 < N /\ N < L) => \A k \in 1 .. N : pos[k] \in 0 .. (L - 1)

\* C16: the positions the initializer produces are strictly increasing in index
\* order and its velocities are in 0 .. vmax
C16_InitOrdered ==
    Initialized =>
        /\ Len(pos) = N /\ Len(vel) = N
        /\ \A k \in 1 .. (N - 1) : pos[k] < pos[k + 1]
        /\ \A k \in 1 .. N : vel[k] \in 0 .. vmax

\* the initializer has drawn two vehicles with unequal gaps, one of them at vmax
\* and one standing
C16_Witness ==
    /\ Initialized /\ N = 2
    /\ pos[1] # pos[2] - pos[1]
    /\ \E k \in 1 .. N : vel[k] = vmax
    /\ \E k \in 1 .. N : vel[k] = 0

\* C17: with N >= L the initializer raises InvalidConfiguration: the lists stay
\* empty and no step is applied
C17_TrafficRejected ==
    N >= L =>
        /\ pc \in {"init", "raised"}
        /\ pc = "raised" => exc = "InvalidConfiguration"
        /\ pos = << >> /\ vel = << >>

\* C18: with N <= 0 the creation raises InvalidConfiguration, and neither a board
\* nor an entry of the neighbour list exists afterwards
C18_LifeRejected ==
    lifeN <= 0 =>
        /\ lifePc = "create"
        /\ err \in {"none", "InvalidConfiguration"}
        /\ DOMAIN nbrs = {}
        /\ board = << >>

\* vehicle i is the next one the pass updates
Pending == pc \in {"single", "update"} /\ N > 0

\* C19: with d the distance along the ring from vehicle i to the vehicle ahead
\* (vehicle 0 for the last one), slowing down sets the accelerated velocity to
\* d - 1 exactly when d is at most that velocity and leaves it unchanged otherwise
C19_SlowingDownRule ==
    Pending =>
        LET v == Accelerate(At(vel, i), vmax)
            d == RingDistance(pos, i, N, L)
        IN SlowDown(pos, i, v, N, L) = IF d <= v THEN d - 1 ELSE v

\* C20: the gap the slowing down of a vehicle uses, (L - position - 1) + position
\* of vehicle 0 for the last one, is at least 1, and no velocity is negative
C20_GapAtLeastOne ==
    /\ Pending => Gap(pos, i, N, L) >= 1
    /\ \A k \in 1 .. Len(vel) : vel[k] >= 0

\* the slowing down of the pending vehicle i reduces its accelerated velocity
Clamps == Accelerate(At(vel, i), vmax) >= Gap(pos, i, N, L)

\* the position read for the vehicle ahead of the pending vehicle, the ring being
\* unrolled for the last one
LeaderRead == IF i < N - 1 THEN At(pos, i + 1) ELSE At(pos, 0) + L

\* the position the pending vehicle moves to when np.random.rand() returns r
MovesTo(r) == At(pos, i) + NewVel(pos, vel, i, r, N, L, vmax, p)

\* the step is the update of the pending vehicle with the draw r
UpdateWith(r) ==
    /\ pos' = AfterUpdate(pos, vel, i, r, N, L, vmax, p).pos
    /\ vel' = AfterUpdate(pos, vel, i, r, N, L, vmax, p).vel

PassStartPos == IF i = 0 THEN pos ELSE tpos

PassStartVel == IF i = 0 THEN vel ELSE tvel

\* C22: the gap of the last vehicle of the list is computed from the position
\* vehicle 0 had at the start of the tick, not from the position vehicle 0 has
\* moved to in this tick
C22_WrapGapReadsStart ==
    (Pending /\ i = N - 1) =>
        Gap(pos, i, N, L) = (L - At(pos, i) - 1) + At(PassStartPos, 0)

\* C23: in a pass from a well-formed state the slowing down of a vehicle
\* i < N-1 reads the position vehicle i+1 had at the start of the tick
C23_GapReadsStart ==
    (Pending /\ i < N - 1 /\ WellFormedLists(PassStartPos, PassStartVel, N, L, vmax))
        => At(pos, i + 1) = At(PassStartPos, i + 1)

\* vehicles 0 and 1 of three have moved in a tick and vehicle 1 is about to read
\* the position of vehicle 2
C23_Witness ==
    /\ Pending /\ N = 3 /\ i = 1
    /\ WellFormedLists(tpos, tvel, N, L, vmax)
    /\ pos[1] # tpos[1]

\* the draws of one pass, one for each index of the list
DrawLists(n) == [1 .. n -> 0 .. (PDen - 1)]

\* the fully synchronous step: every velocity from the gap in the lists ps, vs of
\* the start of the tick, every vehicle moved, then the wrap of the last vehicle
SynchronousStep(ps, vs, drs, n, len, vm, pr) ==
    LET vel1 == [k \in 1 .. n |-> NewVel(ps, vs, k - 1, drs[k], n, len, vm, pr)]
        pos1 == [k \in 1 .. n |-> ps[k] + vel1[k]]
    IN [pos |-> WrapPos(pos1, n, len), vel |-> WrapVel(pos1, vel1, n, len)]

\* the well-formed states of n vehicles on a road of len cells
WellFormedStates(n, len, vm) ==
    {st \in [pos : IncreasingSeqs(n, 0, len), vel : [1 .. n -> 0 .. vm]] : TRUE}

\* there are a well-formed state and draws on which the pass of the source and
\* the fully synchronous step give different lists
PassesDiffer ==
    \E len \in 2 .. MaxL : \E n \in 1 .. (len - 1) : \E vm \in 1 .. MaxV :
    \E pr \in 0 .. PDen : \E st \in WellFormedStates(n, len, vm) :
    \E drs \in DrawLists(n) :
       UpdatePass(st.pos, st.pos, st.vel, 0, drs, n, len, vm, pr, n)
          # SynchronousStep(st.pos, st.vel, drs, n, len, vm, pr)

\* C24: there are a well-formed state and draws on which the pass of the source
\* and the fully synchronous step give different lists; the lists a tick ends
\* with are those of the pass of the source
C24_SequentialDiffers ==
    /\ PassesDiffer
    /\ (StepComplete /\ L > 0) =>
          \E drs \in DrawLists(N) :
             [pos |-> pos, vel |-> vel]
                = UpdatePass(tpos, tpos, tvel, 0, drs, N, L, vmax, p, N)

\* a tick from a well-formed state has ended with lists that differ from those of
\* the synchronous step for every draw
C24_Witness ==
    /\ StepComplete /\ L > 0
    /\ WellFormedLists(tpos, tvel, N, L, vmax)
    /\ \A drs \in DrawLists(N) :
          [pos |-> pos, vel |-> vel] # SynchronousStep(tpos, tvel, drs, N, L, vmax, p)

\* C25: in the pass that follows the initializer, for 0 < N < L, the update of a
\* vehicle other than the last changes the entries of that vehicle only: no wrap
\* normalization takes place before the last vehicle has moved, so every vehicle
\* is updated once, in list order
C25_OneUpdateEach ==
    [][(pc = "single" /\ 0 < N /\ N < L /\ i < N - 1) =>
         \A k \in 1 .. N :
            k # i + 1 => (pos'[k] = pos[k] /\ vel'[k] = vel[k])]_vars

\* the lists after the motion of the pending vehicle and before the test
\* pos[N-1] >= L, np.random.rand() returning r
MovedPos(r) == SetAt(pos, i, MovesTo(r))

MovedVel(r) == SetAt(vel, i, NewVel(pos, vel, i, r, N, L, vmax, p))

\* C26: when after the motion the position of the last vehicle is >= L, that
\* vehicle is taken from the end and put at the front with its position reduced
\* by L and its velocity unchanged, the other vehicles keep their positions,
\* velocities and order, and both lists keep the length N; otherwise the lists
\* are left as the motion made them
C26_WrapNormalization ==
    [][Pending =>
         \A r \in 0 .. (PDen - 1) :
            UpdateWith(r) =>
               \A mp \in {MovedPos(r)} : \A mv \in {MovedVel(r)} :
                  /\ Len(pos') = N /\ Len(vel') = N
                  /\ IF mp[N] >= L
                     THEN /\ pos'[1] = mp[N] - L
                          /\ vel'[1] = mv[N]
                          /\ \A k \in 1 .. (N - 1) :
                                pos'[k + 1] = mp[k] /\ vel'[k + 1] = mv[k]
                     ELSE pos' = mp /\ vel' = mv]_vars

\* a tick from a well-formed state has ended with the last vehicle put at the
\* front, its velocity different from that of the vehicle now behind it
C26_Witness ==
    /\ StepComplete /\ N >= 2
    /\ WellFormedLists(tpos, tvel, N, L, vmax)
    /\ tpos[N] + vel[1] >= L
    /\ pos[1] = tpos[N] + vel[1] - L
    /\ \A k \in 1 .. (N - 1) : pos[k + 1] = tpos[k] + vel[k + 1]
    /\ vel[1] # vel[2]

\* the velocity of the pending vehicle after acceleration and slowing down
Slowed ==
    IF Accelerate(At(vel, i), vmax) >= Gap(pos, i, N, L)
    THEN Gap(pos, i, N, L) - 1
    ELSE Accelerate(At(vel, i), vmax)

\* C27: random deceleration comes after slowing down and only for a velocity
\* >= 1, takes exactly 1 off when the draw is < p and nothing otherwise (never at
\* p = 0), and does not make a velocity negative; the motion adds that final
\* velocity to the position, no mod L being applied, and that velocity is the
\* one stored
C27_RuleOrder ==
    [][Pending =>
         \A r \in 0 .. (PDen - 1) :
            UpdateWith(r) =>
               \A v \in {NewVel(pos, vel, i, r, N, L, vmax, p)} :
               \A sd \in {Slowed} :
               \A wrapped \in {At(pos, N - 1) + (IF i = N - 1 THEN v ELSE 0) >= L} :
               \A k \in {IF ~wrapped THEN i + 1 ELSE IF i = N - 1 THEN 1 ELSE i + 2} :
                  /\ (sd >= 1 /\ r < p) => v = sd - 1
                  /\ ~(sd >= 1 /\ r < p) => v = sd
                  /\ p = 0 => v = sd
                  /\ sd >= 0 => v >= 0
                  /\ vel'[k] = v
                  /\ pos'[k] = At(pos, i) + v - (IF wrapped /\ i = N - 1 THEN L ELSE 0)]_vars

\* a tick from a well-formed state has ended in which vehicle 0 was slowed down to
\* a velocity >= 1 by the vehicle ahead and then lost 1 at random
C27_Witness ==
    /\ StepComplete /\ N >= 2 /\ p > 0
    /\ WellFormedLists(tpos, tvel, N, L, vmax)
    /\ Accelerate(tvel[1], vmax) >= tpos[2] - tpos[1]
    /\ tpos[2] - tpos[1] >= 2
    /\ pos[1] = tpos[1] + vel[1]
    /\ vel[1] = tpos[2] - tpos[1] - 2

\* C28: no step changes L, N, vmax or p; the lists keep their length
C28_ParametersFrame ==
    [][/\ L' = L /\ N' = N /\ vmax' = vmax /\ p' = p
       /\ Len(pos') = Len(pos) /\ Len(vel') = Len(vel)]_vars

\* a tick with p > 0 has changed both lists
C28_Witness ==
    /\ StepComplete /\ p > 0
    /\ pos # tpos /\ vel # tvel

\* the row that records the lists ps, vs: 0 in a cell without a vehicle, the
\* value of the last vehicle of the list on it otherwise
RowOf(ps, vs) ==
    [c \in 1 .. L |->
        LET on == {k \in 1 .. N : ps[k] = c - 1}
        IN IF on = {} THEN 0
           ELSE CellCode(vs[CHOOSE k \in on : \A j \in on : j <= k])]

\* the rows of the traffic array written so far
RowsWritten == IF pc = "update" THEN t + 1 ELSE t

\* rows 0 .. t-1 record the lists their ticks started from: row t is there once it
\* is drawn, row t-1 is that of the lists the tick just ended started from, and
\* the rows not yet written are zero
RowsRecordStarts ==
    /\ Len(traffic) = MaxT
    /\ RowsWritten <= MaxT
    /\ RowDrawn => traffic[t + 1] = RowOf(pos, vel)
    /\ StepComplete => traffic[t] = RowOf(tpos, tvel)
    /\ \A row \in (RowsWritten + 1) .. MaxT : traffic[row] = [c \in 1 .. L |-> 0]

\* a step writes at most the row of its tick, before the update of that tick, and
\* leaves the rows already written as they are; after the last update nothing is
\* written
RowsKept ==
    /\ \A row \in 1 .. RowsWritten : traffic'[row] = traffic[row]
    /\ pc # "draw" => traffic' = traffic
    /\ (pc = "draw" /\ traffic' # traffic) => (pc' = "update" /\ i' = 0 /\ t' = t)
    /\ t = MaxT => traffic' = traffic

\* C29: in a run of T ticks row t of the traffic array is written before the
\* t-th update and records the lists at the start of tick t; T rows are written,
\* a written row is never changed by a later step, and the lists after the
\* last update are not recorded
C29_SnapshotTiming == [](exc = "none" /\ RowsRecordStarts) /\ [][RowsKept]_vars

\* the run has ended: the last row records the lists the last tick started from,
\* which are not the lists it ended with
C29_Witness ==
    /\ pc = "draw" /\ t = MaxT
    /\ traffic[MaxT] = RowOf(tpos, tvel)
    /\ traffic[MaxT] # RowOf(pos, vel)
    /\ traffic[1] # traffic[MaxT]

\* C30: from any N x N board of cells in {0, 1}, in every state of the run the
\* board is N x N and every cell is 0 or 1
C30_GridDomain ==
    /\ DOMAIN board = Cells(lifeN)
    /\ \A c \in Cells(lifeN) : board[c] \in {0, 1}

\* a turn on a 3 x 3 board has ended with a birth and a death
C30_Witness ==
    /\ lifeN = 3 /\ turn = 1 /\ err = "none"
    /\ \E c \in Cells(lifeN) : board0[c] = 0 /\ board[c] = 1
    /\ \E c \in Cells(lifeN) : board0[c] = 1 /\ board[c] = 0

\* C31: the neighbour list is built once, before the first turn, and no step of
\* the turns adds, removes or changes an entry
C31_NbrsFrame ==
    [][/\ lifePc = "run" => nbrs' = nbrs
       /\ nbrs' # nbrs => (lifePc = "create" /\ lifePc' = "run" /\ turn = 0 /\ scan = 0)]_vars

\* a turn has changed a board of size >= 2 and the list is the one that was built
C31_Witness ==
    /\ lifePc = "run" /\ lifeN >= 2 /\ turn = 1
    /\ board # board0
    /\ nbrs = FixedNbrs(lifeN)

\* a pass over the vehicles that followed the initializer has ended
PassEnded == pc = "draw" /\ i = 0

\* C32: from every configuration the initializer produces with 0 < N < L, after
\* any number of passes over the vehicles and for every draw, the positions are
\* pairwise distinct
C32_DistinctFromInit ==
    (PassEnded /\ 0 < N /\ N < L) =>
        \A j, k \in 1 .. N : j # k => pos[j] # pos[k]

\* two ticks of a run of at least three vehicles have ended, the last vehicle
\* having been put at the front in the last one
C32_Witness ==
    /\ PassEnded /\ N >= 3 /\ t >= 2
    /\ pos[1] < tpos[1]
    /\ \A k \in 1 .. (N - 1) : pos[k + 1] >= tpos[k]
    /\ \E k \in 1 .. (N - 1) : pos[k + 1] > tpos[k]

C34_Progress ==
    (StepComplete /\ p = 0 /\ WellFormedLists(tpos, tvel, N, L, vmax)) =>
        pos # tpos

\* the cells of a row of the traffic array that are not zero
NonZeroCells(row) == {c \in 0 .. (L - 1) : traffic[row][c + 1] # 0}

\* C35: in a run from any configuration the initializer produces with 0 < N < L,
\* after the single-step cell, every row written has exactly N non-zero cells, one
\* at each vehicle's position, and every index written is in 0 .. L-1
C35_SnapshotOccupancy ==
    /\ exc = "none"
    /\ \A row \in 1 .. RowsWritten : Cardinality(NonZeroCells(row)) = N
    /\ RowDrawn =>
          /\ \A k \in 1 .. N : pos[k] \in 0 .. (L - 1)
          /\ NonZeroCells(t + 1) = {pos[k] : k \in 1 .. N}

\* the last row of a run of at least three vehicles has been drawn, after a tick
\* that put the last vehicle at the front
C35_Witness ==
    /\ RowDrawn /\ N >= 3 /\ t = MaxT - 1
    /\ pos[1] < tpos[1]
    /\ NonZeroCells(t + 1) # NonZeroCells(t)

\* C36: for every N >= 2 and all cells a, b of the board, b is in the entry of a
\* in the neighbour list the source builds iff a is in the entry of b (every
\* cell b of the board that the entry of a holds has a in its own entry: taken
\* over all pairs of cells, the two directions of the equivalence)
C36_FixedSymmetric ==
    (lifePc = "run" /\ policy = "fixed" /\ lifeN >= 2) =>
        \A a \in Cells(lifeN) : \A d \in 1 .. Len(nbrs[a]) :
            nbrs[a][d] \in Cells(lifeN) =>
                \E e \in 1 .. Len(nbrs[nbrs[a][d]]) : nbrs[nbrs[a][d]][e] = a

\* a turn has ended on a board where a corner and an edge cell, and an edge cell
\* and the interior cell, hold each other
C36_Witness ==
    /\ lifePc = "run" /\ policy = "fixed" /\ lifeN = 3 /\ turn = 1
    /\ <<1, 2>> \in NbrSet(nbrs[<<0, 2>>]) /\ <<0, 2>> \in NbrSet(nbrs[<<1, 2>>])
    /\ <<1, 1>> \in NbrSet(nbrs[<<1, 2>>]) /\ <<1, 2>> \in NbrSet(nbrs[<<1, 1>>])
    /\ <<2, 2>> \notin NbrSet(nbrs[<<0, 2>>])

\* C37: with the neighbour list the source builds, on a board of size >= 5 whose
\* only alive cells are the blinker {(1,0),(1,1),(1,2)} at the edge, the board
\* differs from the original after 1 turn and equals it after 2 turns; a board
\* whose only alive cells are the block is unchanged by every turn
C37_FixedEdgePatterns ==
    (policy = "fixed" /\ lifeN >= 5) =>
        /\ (board0 = Blinker(lifeN) /\ scan = 0) =>
              /\ turn = 1 => board # board0
              /\ turn = 2 => board = board0
        /\ board0 = Block(lifeN) => board = Block(lifeN)

\* two turns of a run from the blinker at the edge are done, the first of which
\* gave the blinker standing across the edge row
C37_Witness ==
    /\ policy = "fixed" /\ lifeN >= 5 /\ board0 = Blinker(lifeN)
    /\ scan = 0 /\ turn = 2 /\ board = board0
    /\ board[<<1, 0>>] = 1 /\ board[<<0, 1>>] = 0

====
